---- MODULE Spec2Model ----
(***************************************************************************)
(* Model of the MPC controller process (src/src/main.cpp, src/src/MPC.cpp).*)
(*                                                                         *)
(* Real numbers are fixed-point integers: state, actuation and coefficient *)
(* values are in millionths (1.0 = 1000000), cost weights in thousandths,  *)
(* times in milliseconds.  A non-finite double (NaN or an infinity) is the *)
(* single value NaN, which every arithmetic operator propagates and every  *)
(* comparison rejects, as IEEE comparisons with NaN do.                    *)
(***************************************************************************)
EXTENDS Integers, Sequences, FiniteSets, TLC

\* ------------------------------------------------------------------ bounds
\* Largest number of command-line override values tried at start-up.
MaxArgs == 8
\* Largest number of waypoints in one telemetry record.
MaxWp == 5
\* Last clock tick (one tick is 100 ms) of the model's clock.
MaxTick == 2

\* ----------------------------------------------------------- fixed point
\* 1.0 in millionths.
One == 1000 * 1000
\* A non-finite double.
NaN == 0 - 2147483647
\* The magnitude 1.0e19 of the bounds of the state variables: larger than
\* every value of the model, saturated to the model's integer range.
StateBound == 2000000000

Finite(a) == a # NaN
Neg(a) == IF Finite(a) THEN 0 - a ELSE NaN
Add(a, b) == IF Finite(a) /\ Finite(b) THEN a + b ELSE NaN
\* Quotient rounded toward zero, of numerators of either sign.
QuotT(n, d) == IF n >= 0 THEN n \div d ELSE 0 - ((0 - n) \div d)
Leq(a, b) == Finite(a) /\ Finite(b) /\ a <= b

\* ------------------------------------------------------ MPC.cpp globals
N == 8
x_start == 0
y_start == x_start + N
psi_start == y_start + N
v_start == psi_start + N
cte_start == v_start + N
epsi_start == cte_start + N
delta_start == epsi_start + N
\* a_start with the steering block taken to be N long.
a_start_steering_block_N == delta_start + N
a_start == delta_start + N - 1

\* Solve's local sizes.
n_vars == N * 6 + (N - 1) * 2
n_constraints == N * 6

StateKinds == <<"x", "y", "psi", "v", "cte", "epsi">>
Start(k) ==
  CASE k = "x" -> x_start
    [] k = "y" -> y_start
    [] k = "psi" -> psi_start
    [] k = "v" -> v_start
    [] k = "cte" -> cte_start
    [] k = "epsi" -> epsi_start
    [] k = "delta" -> delta_start
    [] k = "a" -> a_start

\* --------------------------------------------------------- main: weights
\* The defaults of main.cpp line 101, in thousandths.
DefaultWeights == <<2000, 10000, 5000, 3000000, 100000, 500000, 100000>>

IsDigit(c) == c \in {"0", "1", "2", "3", "4", "5", "6", "7", "8", "9"}
DigitVal(c) ==
  CASE c = "0" -> 0 [] c = "1" -> 1 [] c = "2" -> 2 [] c = "3" -> 3
    [] c = "4" -> 4 [] c = "5" -> 5 [] c = "6" -> 6 [] c = "7" -> 7
    [] c = "8" -> 8 [] c = "9" -> 9

\* The value of the digits of s from position i on, up to the first
\* character that is no digit, continuing the value acc.
RECURSIVE IntPart(_, _, _)
IntPart(s, i, acc) ==
  IF i <= Len(s) /\ IsDigit(s[i])
  THEN IntPart(s, i + 1, acc * 10 + DigitVal(s[i]))
  ELSE acc
\* The position after the digits of s that start at position i.
RECURSIVE AfterDigits(_, _)
AfterDigits(s, i) ==
  IF i <= Len(s) /\ IsDigit(s[i]) THEN AfterDigits(s, i + 1) ELSE i
\* The fraction digits of s from position i on, in thousandths; w is the
\* weight of the digit at i (100, 10, 1, then 0: further digits are below
\* the fixed-point resolution).
RECURSIVE FracPart(_, _, _)
FracPart(s, i, w) ==
  IF i <= Len(s) /\ IsDigit(s[i])
  THEN DigitVal(s[i]) * w + FracPart(s, i + 1, w \div 10)
  ELSE 0

\* atof: an optional sign, digits, an optional fraction; conversion stops
\* at the first character that fits none of these, and a string with no
\* leading number converts to 0.  The result is in thousandths.
atof(s) ==
  LET signed == Len(s) > 0 /\ s[1] \in {"-", "+"}
      start == IF signed THEN 2 ELSE 1
      p == AfterDigits(s, start)
      whole == IntPart(s, start, 0) * 1000
      frac == IF p <= Len(s) /\ s[p] = "." THEN FracPart(s, p + 1, 100) ELSE 0
      mag == whole + frac
  IN  IF signed /\ s[1] = "-" THEN 0 - mag ELSE mag

\* The i-th command-line value tried: a number with a fraction, a negative
\* number, or a number of three digits.
ArgDigit(i) ==
  CASE i % 10 = 0 -> "0" [] i % 10 = 1 -> "1" [] i % 10 = 2 -> "2"
    [] i % 10 = 3 -> "3" [] i % 10 = 4 -> "4" [] i % 10 = 5 -> "5"
    [] i % 10 = 6 -> "6" [] i % 10 = 7 -> "7" [] i % 10 = 8 -> "8"
    [] i % 10 = 9 -> "9"
ArgAt(i) ==
  CASE i % 3 = 1 -> <<ArgDigit(i), ".", "5">>
    [] i % 3 = 2 -> <<"-", ArgDigit(i), "0">>
    [] i % 3 = 0 -> <<ArgDigit(i), "0", "0">>
\* argv[1..argc-1] of the runs tried: no value, a few, and the two longest
\* lists of the bound.
ArgCounts == {0, 3, MaxArgs - 1, MaxArgs}
ArgLists == {[i \in 1..k |-> ArgAt(i)] : k \in ArgCounts}

\* ------------------------------------------------------------------ state
VARIABLES
  argv,     \* argv[1..argc-1], the command line of the process
  pc,       \* "start" before main has run, then "running", or "terminated"
  ndebug,   \* the build: TRUE when NDEBUG compiles the assertions out
  weights,  \* mpc.weights
  overrun,  \* positions past the end of main's weights vector it wrote to
  clock,    \* system_clock::now(), in ticks of 100 ms
  then,     \* the global time point `then`, in ticks
  actuated, \* the tick at which Solve last returned an actuation, -1: never
  handled,  \* what the last call of the onMessage handler did
  sent,     \* the messages the last call of the handler sent
  cyc,      \* the telemetry locals of the last call of the handler
  solve     \* the locals of MPC::Solve in the last call of the handler

vars == <<argv, pc, ndebug, weights, overrun, clock, then, actuated, handled, sent, cyc, solve>>

Idx == 0..(n_vars - 1)
CIdx == 0..(n_constraints - 1)
ZeroVec == [i \in Idx |-> 0]
ZeroCons == [i \in CIdx |-> 0]

NoCycle ==
  [nptsx |-> 0, nptsy |-> 0, latency |-> 0, d |-> 0, a |-> 0,
   px |-> 0, py |-> 0, psi |-> 0, v |-> 0,
   coeffs |-> <<0, 0, 0, 0>>, cte |-> 0, epsi |-> 0]
NoSolve ==
  [called |-> FALSE, state |-> <<0, 0, 0, 0, 0, 0>>, coeffs |-> <<0, 0, 0, 0>>,
   weights |-> <<>>,
   vars |-> ZeroVec, vars_lowerbound |-> ZeroVec, vars_upperbound |-> ZeroVec,
   constraints_lowerbound |-> ZeroCons, constraints_upperbound |-> ZeroCons,
   status |-> "not_defined", x |-> ZeroVec, ok |-> FALSE,
   actuations |-> [d |-> 0, a |-> 0, x_vals |-> <<>>, y_vals |-> <<>>]]

Init ==
  /\ argv \in ArgLists
  /\ pc = "start"
  /\ ndebug \in BOOLEAN
  /\ weights = <<>>
  /\ overrun = {}
  /\ clock = 0
  /\ then = 0
  /\ actuated = 0 - 1
  /\ handled = "none"
  /\ sent = <<>>
  /\ cyc = NoCycle
  /\ solve = NoSolve

\* ------------------------------------------------------- main: start-up
\* main.cpp lines 101-108: the local vector of 7 defaults, then
\* weights[i-1] = atof(argv[i]) for i = 1..argc-1.  The vector keeps its 7
\* elements; a write at a position past its end goes to the memory behind it.
OverrideWeights(args) ==
  [i \in 1..Len(DefaultWeights) |->
     IF i <= Len(args) THEN atof(args[i]) ELSE DefaultWeights[i]]
WritesPastEnd(args) == {i \in 1..Len(args) : i > Len(DefaultWeights)}

\* MPC::pass_args (MPC.cpp 143-145).
pass_args(args) == args

\* main up to h.run(): `then` is set, the weights are built and passed.
\* A write past the end of the vector is undefined behaviour: the process
\* goes on with the memory behind the vector overwritten, or it is killed.
Main ==
  /\ pc = "start"
  /\ \E killed \in BOOLEAN :
       /\ killed => WritesPastEnd(argv) # {}
       /\ then' = clock
       /\ overrun' = WritesPastEnd(argv)
       /\ IF killed
          THEN pc' = "terminated" /\ weights' = weights
          ELSE pc' = "running" /\ weights' = pass_args(OverrideWeights(argv))
  /\ UNCHANGED <<actuated, argv, ndebug, clock, handled, sent, cyc, solve>>

\* Time passes between two messages.
Tick ==
  /\ pc = "running"
  /\ clock < MaxTick
  /\ clock' = clock + 1
  /\ UNCHANGED <<actuated, argv, pc, ndebug, weights, overrun, then, handled, sent, cyc, solve>>

\* ------------------------------------------------------------- MPC::Solve
\* The steering limit 0.436332 rad and the throttle limit 1.0 (MPC.cpp).
\* The steering limit left in degrees.
SteerBound_degrees == 25 * One
SteerBound == 436332
ThrottleBound == 1000000

\* The index ranges of Solve's three bound loops (MPC.cpp 187, 195, 202).
StateRange == 0..(delta_start - 1)
DeltaRange == delta_start..(a_start - 1)
ARange == a_start..(n_vars - 1)

\* The initial guess with the two error entries exchanged.
InitialGuess_errors_swapped(state) ==
  [ZeroVec EXCEPT ![x_start] = state[1], ![y_start] = state[2],
                  ![psi_start] = state[3], ![v_start] = state[4],
                  ![cte_start] = state[6], ![epsi_start] = state[5]]
\* The initial guess (MPC.cpp 168-179): zero, then the six state values.
InitialGuess(state) ==
  [ZeroVec EXCEPT ![x_start] = state[1], ![y_start] = state[2],
                  ![psi_start] = state[3], ![v_start] = state[4],
                  ![cte_start] = state[5], ![epsi_start] = state[6]]

\* vars_lowerbound and vars_upperbound (MPC.cpp 182-205).  The three loops
\* run in order, so a later loop's value stands where two ranges overlap;
\* the three ranges cover every index, so the last case does not arise.
VarBound(i) ==
  IF i \in ARange THEN ThrottleBound
  ELSE IF i \in DeltaRange THEN SteerBound
  ELSE IF i \in StateRange THEN StateBound
  ELSE 0
VarsLowerBound == [i \in Idx |-> 0 - VarBound(i)]
VarsUpperBound == [i \in Idx |-> VarBound(i)]

\* constraints_lowerbound and constraints_upperbound (MPC.cpp 209-227):
\* zero, then the six state values at the offsets of the six state kinds.
\* The six state values at the first six positions.
ConstraintBound_first_six(state) ==
  [ZeroCons EXCEPT ![0] = state[1], ![1] = state[2], ![2] = state[3],
                   ![3] = state[4], ![4] = state[5], ![5] = state[6]]
ConstraintBound(state) ==
  [ZeroCons EXCEPT ![x_start] = state[1], ![y_start] = state[2],
                   ![psi_start] = state[3], ![v_start] = state[4],
                   ![cte_start] = state[5], ![epsi_start] = state[6]]
ConstraintsLowerBound(state) == ConstraintBound(state)
ConstraintsUpperBound(state) == ConstraintBound(state)

\* ---------------------------------------------------- FG_eval::operator()
\* The vars indices the three cost loops read (MPC.cpp 62-78), by kind.
CostReads ==
  {[kind |-> "cte", idx |-> cte_start + t] : t \in 0..(N - 1)}
  \cup {[kind |-> "epsi", idx |-> epsi_start + t] : t \in 0..(N - 1)}
  \cup {[kind |-> "v", idx |-> v_start + t] : t \in 0..(N - 1)}
  \cup {[kind |-> "delta", idx |-> delta_start + t] : t \in 0..(N - 2)}
  \cup {[kind |-> "a", idx |-> a_start + t] : t \in 0..(N - 2)}
  \cup {[kind |-> "delta", idx |-> delta_start + t + 1] : t \in 0..(N - 3)}
  \cup {[kind |-> "delta", idx |-> delta_start + t] : t \in 0..(N - 3)}
  \cup {[kind |-> "a", idx |-> a_start + t + 1] : t \in 0..(N - 3)}
  \cup {[kind |-> "a", idx |-> a_start + t] : t \in 0..(N - 3)}

\* One assignment to fg: the slot written, what it holds ("init": the
\* step-0 variable itself, "residual": the variable at step t minus the
\* model's prediction from step t-1) and the vars entries it reads.
FgInit(k) ==
  [slot |-> 1 + Start(k), op |-> "init", kind |-> k, t |-> 0,
   reads |-> {[kind |-> k, idx |-> Start(k)]}]
Rd(k, t) == [kind |-> k, idx |-> Start(k) + t]
\* The entries the prediction of kind k reads from step t-1 (MPC.cpp
\* 112-132): f0 and psides0 read x0.
ModelReads(k, t) ==
  CASE k = "x" -> {Rd("x", t - 1), Rd("v", t - 1), Rd("psi", t - 1)}
    [] k = "y" -> {Rd("y", t - 1), Rd("v", t - 1), Rd("psi", t - 1)}
    [] k = "psi" -> {Rd("psi", t - 1), Rd("v", t - 1), Rd("delta", t - 1)}
    [] k = "v" -> {Rd("v", t - 1), Rd("a", t - 1)}
    [] k = "cte" -> {Rd("x", t - 1), Rd("y", t - 1), Rd("v", t - 1),
                     Rd("epsi", t - 1)}
    [] k = "epsi" -> {Rd("psi", t - 1), Rd("x", t - 1), Rd("v", t - 1),
                      Rd("delta", t - 1)}
\* A residual whose prediction reads the step it predicts.
FgResidual_same_step(k, t) ==
  [slot |-> 1 + Start(k) + t, op |-> "residual", kind |-> k, t |-> t,
   reads |-> {Rd(k, t)} \cup ModelReads(k, t + 1)]
FgResidual(k, t) ==
  [slot |-> 1 + Start(k) + t, op |-> "residual", kind |-> k, t |-> t,
   reads |-> {Rd(k, t)} \cup ModelReads(k, t)]
\* The assignments to fg[1..] in program order (MPC.cpp 83-133).
RECURSIVE FgLoop(_)
FgLoop(t) ==
  IF t >= N THEN <<>>
  ELSE [n \in 1..6 |-> FgResidual(StateKinds[n], t)] \o FgLoop(t + 1)
FgWrites == [n \in 1..6 |-> FgInit(StateKinds[n])] \o FgLoop(1)

\* The value of constraint j (fg[1 + j]) at the decision vector x, for the
\* rows that hold a step-0 variable.
InitRows == {w.slot - 1 : w \in {FgWrites[n] : n \in 1..6}}
InitRowValue(x, j) ==
  LET w == CHOOSE w \in {FgWrites[n] : n \in 1..6} : w.slot = 1 + j
      r == CHOOSE r \in w.reads : TRUE
  IN  x[r.idx]

\* -------------------------------------------------- CppAD::ipopt::solve
\* The statuses tried: success, and the failures of the error taxonomy
\* (iteration limit, infeasible, and "unknown", which is how the adapter
\* reports the cpu-time limit).
FailureStatuses == {"maxiter_exceeded", "local_infeasibility", "unknown"}

\* The decision vectors the solver is tried with: the step-0 state entries
\* are init, every steering entry d, every acceleration entry a, and the
\* state entry at index i is fill + i/1000, so that no two of them agree.
Candidate(init, d, a, fill) ==
  [i \in Idx |->
     IF i \in {Start(StateKinds[n]) : n \in 1..6}
     THEN init[CHOOSE n \in 1..6 : Start(StateKinds[n]) = i]
     ELSE IF i \in delta_start..(a_start - 1) THEN d
     ELSE IF i \in a_start..(n_vars - 1) THEN a
     ELSE fill + 1000 * i]
\* Two vectors at the two ends of both actuator ranges, one with a steering
\* of 0.5 rad, one with an acceleration of -1.5, and one whose step-0 speed
\* is off the given state by 1.
Candidates(state) ==
  {Candidate(state, 436332, One, 2 * One),
   Candidate(state, 0 - 436332, 0 - One, 0),
   Candidate(state, 500000, 0, 0),
   Candidate(state, 0, 0 - 1500000, 0),
   Candidate([state EXCEPT ![4] = Add(state[4], One)], 0, 0, 0)}
\* The vectors tried as the result of a failed solve, which is whatever the
\* solver held when it gave up: one inside the variable bounds, one not.
FailedVectors(state) ==
  {Candidate(state, 436332, One, 2 * One), Candidate(state, 500000, 0, 0)}

\* What a successful solve guarantees of its result x: every variable is
\* within its bounds and every constraint within its bounds.  The rows
\* that hold residuals are functions (cos, sin, atan) of solver-chosen
\* reals that the model does not evaluate; leaving them out admits more
\* vectors than the solver can return, never fewer.
Feasible(x, xl, xu, gl, gu) ==
  /\ \A i \in Idx : Leq(xl[i], x[i]) /\ Leq(x[i], xu[i])
  /\ \A j \in InitRows : Leq(gl[j], InitRowValue(x, j)) /\ Leq(InitRowValue(x, j), gu[j])

\* The returned struct with the two sequences starting at step 0.
Extract_from_step_0(x) ==
  [d |-> x[delta_start], a |-> x[a_start],
   x_vals |-> [t \in 1..(N - 1) |-> x[x_start + t - 1]],
   y_vals |-> [t \in 1..(N - 1) |-> x[y_start + t - 1]]]
\* MPC.cpp 263-271: the returned struct.
Extract(x) ==
  [d |-> x[delta_start], a |-> x[a_start],
   x_vals |-> [t \in 1..(N - 1) |-> x[x_start + t]],
   y_vals |-> [t \in 1..(N - 1) |-> x[y_start + t]]]

\* The locals of a call whose evaluator is given the default weights
\* instead of the controller's.
SolveResult_default_weights(state, coeffs, status, x) ==
  [called |-> TRUE, state |-> state, coeffs |-> coeffs, weights |-> DefaultWeights,
   vars |-> InitialGuess(state),
   vars_lowerbound |-> VarsLowerBound, vars_upperbound |-> VarsUpperBound,
   constraints_lowerbound |-> ConstraintsLowerBound(state),
   constraints_upperbound |-> ConstraintsUpperBound(state),
   status |-> status, x |-> x, ok |-> (status = "success"),
   actuations |-> Extract(x)]
\* The locals of one call Solve(state, coeffs) whose solver call ended
\* with `status` and the vector x.  `ok` is computed (MPC.cpp 261) and
\* never read: the struct returned is the same whatever the status.
SolveResult(state, coeffs, status, x) ==
  [called |-> TRUE, state |-> state, coeffs |-> coeffs, weights |-> weights,
   vars |-> InitialGuess(state),
   vars_lowerbound |-> VarsLowerBound, vars_upperbound |-> VarsUpperBound,
   constraints_lowerbound |-> ConstraintsLowerBound(state),
   constraints_upperbound |-> ConstraintsUpperBound(state),
   status |-> status, x |-> x, ok |-> (status = "success"),
   actuations |-> Extract(x)]
\* The outcomes of the solver call for this state: any failure with any
\* vector, or success with a vector that meets the bounds.
SolverOutcomes(state) ==
  {<<st, x>> : st \in FailureStatuses, x \in FailedVectors(state)}
  \cup {<<"success", x>> : x \in
          {c \in Candidates(state) :
             Feasible(c, VarsLowerBound, VarsUpperBound,
                      ConstraintsLowerBound(state), ConstraintsUpperBound(state))}}

\* ------------------------------------------------------ main.cpp helpers
pi == 3141593
\* deg2rad dividing by a full turn.
deg2rad_full_turn(x) == (x * pi) \div 360
deg2rad(x) == (x * pi) \div 180
\* Lf = 2.67 (MPC.h line 10).
Lf == 2670000
HalfPi == pi \div 2

\* The product of two millionth values, to a thousandth of each factor.
MulM(a, b) ==
  IF Finite(a) /\ Finite(b) THEN QuotT(a, 1000) * QuotT(b, 1000) ELSE NaN
\* pow(x, i) for an int i >= 0; pow(x, 0) is 1, also for x = 0.
RECURSIVE Pow(_, _)
Pow(x, i) == IF i = 0 THEN One ELSE MulM(Pow(x, i - 1), x)
\* polyeval (main.cpp 45-51).
RECURSIVE PolySum(_, _, _)
PolySum(coeffs, x, i) ==
  IF i > Len(coeffs) THEN 0
  ELSE Add(MulM(coeffs[i], Pow(x, i - 1)), PolySum(coeffs, x, i + 1))
polyeval(coeffs, x) == PolySum(coeffs, x, 1)

\* cos and sin of the headings the telemetry of the model carries.
Cos(p) == CASE p = 0 -> 1 [] p = HalfPi -> 0
Sin(p) == CASE p = 0 -> 0 [] p = HalfPi -> 1
\* atan of the slopes the fits of the model carry; atan(1) = pi/4.
Atan(s) ==
  CASE s = 0 -> 0 [] s = One -> pi \div 4 [] s = 0 - One -> 0 - (pi \div 4)
    [] s = NaN -> NaN

\* calc_latency (main.cpp 23-27): now - then in whole milliseconds.
calc_latency(t) == (clock - t) * 100

\* globalKinematic (main.cpp 79-89), lat in milliseconds.  All four new
\* values are computed from the old ones before any is assigned.
globalKinematic(x, y, p, v, d, a, lat) ==
  [v |-> v + QuotT(a * lat, 1000),
   p |-> p + QuotT(QuotT(QuotT(v * 100, Lf \div 10000) * ((0 - d) \div 1000), 1000) * lat, 1000),
   x |-> x + QuotT(v * Cos(p) * lat, 1000),
   y |-> y + QuotT(v * Sin(p) * lat, 1000)]

\* -------------------------------------------------------------- telemetry
\* The telemetry records tried.  The waypoints are nptsx x values and
\* nptsy y values; `shape` says where they lie: "spread" (pairwise distinct
\* x in the vehicle frame) or "at_vehicle" (every waypoint at the reported
\* position px, py).
Poses == {[px |-> 5 * One, py |-> 0 - 3 * One, psi |-> HalfPi, v |-> 10 * One]}
PrevActuations == {[d |-> 100000, a |-> One]}
\* The lengths of the two waypoint sequences: equal, and off by one in
\* either direction at the upper end.
WpCounts ==
  {<<n, n>> : n \in 0..MaxWp} \cup {<<MaxWp, MaxWp - 1>>, <<MaxWp - 1, MaxWp>>}
Telemetry ==
  {[nptsx |-> c[1], nptsy |-> c[2], shape |-> sh, pose |-> po, prev |-> pr] :
     c \in WpCounts, sh \in {"spread", "at_vehicle"},
     po \in Poses, pr \in PrevActuations}

\* The coefficient vectors a fit can return (y = 0.5 + x), and the one that
\* stands for a result with non-finite entries.
Fits == {<<500000, One, 0, 0>>}
NaNFit == <<NaN, NaN, NaN, NaN>>

\* polyfit's two assertions (main.cpp 58-59) for order 3.
PolyfitAsserts(nx, ny, order) == nx = ny /\ order >= 1 /\ order <= nx - 1

\* The design matrix of polyfit has the rows 1, x, x^2, x^3.  With every
\* waypoint at the origin of the vehicle frame its last three columns are
\* zero, R has a zero diagonal and the triangular solve divides by it.
\* With every x equal and not zero the columns are still dependent, and
\* rounding decides whether the pivots are zero.  The least-squares
\* solution of a full-rank system is a real function of the waypoints that
\* the model does not compute: any member of Fits.
PolyfitResults(tel, after) ==
  IF tel.shape = "at_vehicle"
  THEN IF after.x = tel.pose.px /\ after.y = tel.pose.py
       THEN {NaNFit} ELSE {NaNFit} \cup Fits
  ELSE Fits
\* With the assertions compiled out and an input they would have refused,
\* the solve reads what it is given: any vector.
UncheckedPolyfitResults == {NaNFit} \cup Fits

\* The steer message (main.cpp 208-216).  steering_angle is
\* -1 * (steer_value / deg2rad(25)), here to a thousandth.
SteeringAngle(steer_value) ==
  IF Finite(steer_value)
  THEN 0 - (QuotT(steer_value * 1000, deg2rad(25)) * 1000)
  ELSE NaN
num_points == 25
SteerMsg(act) ==
  [type |-> "steer", steering_angle |-> SteeringAngle(act.d), throttle |-> act.a,
   mpc_x |-> act.x_vals, mpc_y |-> act.y_vals, next_n |-> num_points]
ManualMsg == [type |-> "manual"]

\* ---------------------------------------------------- the onMessage handler
\* An incoming message: whether it is longer than 2 and starts with "42",
\* whether it contains "null", whether it contains "[" and "}]", and the
\* event name of its JSON.
Messages ==
  [p42 : BOOLEAN, null : BOOLEAN, brackets : BOOLEAN, event : {"telemetry", "other"}]
\* hasData (main.cpp 32-42) returns the empty string or the JSON text.
hasData(m) == IF m.null THEN FALSE ELSE m.brackets

\* The handler's locals up to the polynomial fit (main.cpp 136-150).
Advance(tel) ==
  globalKinematic(tel.pose.px, tel.pose.py, tel.pose.psi, tel.pose.v,
                  tel.prev.d, tel.prev.a, calc_latency(then))
CycleStart(tel) ==
  LET after == Advance(tel)
  IN  [NoCycle EXCEPT !.nptsx = tel.nptsx, !.nptsy = tel.nptsy,
                      !.latency = calc_latency(then),
                      !.d = tel.prev.d, !.a = tel.prev.a,
                      !.px = after.x, !.py = after.y, !.psi = after.p, !.v = after.v]

IsTelemetry(m) == m.p42 /\ hasData(m) /\ m.event = "telemetry"

\* A message that does not start with "42" (main.cpp 126).
OnOther ==
  /\ pc = "running"
  /\ \E m \in Messages : ~m.p42
  /\ handled' = "ignored"
  /\ sent' = <<>>
  /\ cyc' = NoCycle /\ solve' = NoSolve
  /\ UNCHANGED <<actuated, argv, pc, ndebug, weights, overrun, clock, then>>

\* A "42" message without data (main.cpp 233-237).
OnManual ==
  /\ pc = "running"
  /\ \E m \in Messages : m.p42 /\ ~hasData(m)
  /\ handled' = "manual"
  /\ sent' = <<ManualMsg>>
  /\ cyc' = NoCycle /\ solve' = NoSolve
  /\ UNCHANGED <<actuated, argv, pc, ndebug, weights, overrun, clock, then>>

\* A "42" message with data whose event is not "telemetry" (main.cpp 131).
OnEvent ==
  /\ pc = "running"
  /\ \E m \in Messages : m.p42 /\ hasData(m) /\ m.event # "telemetry"
  /\ handled' = "event"
  /\ sent' = <<>>
  /\ cyc' = NoCycle /\ solve' = NoSolve
  /\ UNCHANGED <<actuated, argv, pc, ndebug, weights, overrun, clock, then>>

\* A telemetry message whose waypoints an assertion refuses, in a build
\* with assertions: the index check of ptsy_transform[i] (main.cpp 161)
\* when there are more x than y values, else polyfit's (main.cpp 58-59).
\* The failed assertion aborts the process.
OnTelemetryAbort ==
  /\ pc = "running" /\ clock < MaxTick
  /\ ~ndebug
  /\ \E m \in Messages, tel \in Telemetry :
       /\ IsTelemetry(m)
       /\ ~PolyfitAsserts(tel.nptsx, tel.nptsy, 3)
       /\ cyc' = CycleStart(tel)
  /\ then' = clock
  /\ pc' = "terminated"
  /\ handled' = "abort"
  /\ sent' = <<>>
  /\ solve' = NoSolve
  /\ UNCHANGED <<actuated, argv, ndebug, weights, overrun, clock>>

\* A telemetry message with waypoint sequences of different lengths in a
\* build without assertions: the loop of main.cpp 155-162 or the solve of
\* main.cpp 73 reads or writes past the end of a vector.  One outcome of
\* that undefined behaviour is that the process is killed; the other is
\* in OnTelemetry.
OnTelemetryKilled ==
  /\ pc = "running" /\ clock < MaxTick
  /\ ndebug
  /\ \E m \in Messages, tel \in Telemetry :
       /\ IsTelemetry(m)
       /\ tel.nptsx # tel.nptsy
       /\ cyc' = CycleStart(tel)
  /\ then' = clock
  /\ pc' = "terminated"
  /\ handled' = "killed"
  /\ sent' = <<>>
  /\ solve' = NoSolve
  /\ UNCHANGED <<actuated, argv, ndebug, weights, overrun, clock>>

\* A telemetry message that runs the whole cycle (main.cpp 131-232):
\* latency step, `then`, transform, fit, errors, Solve, the steer message,
\* the 100 ms sleep and the send.
OnTelemetry ==
  /\ pc = "running" /\ clock < MaxTick
  /\ \E m \in Messages, tel \in Telemetry :
       /\ IsTelemetry(m)
       /\ PolyfitAsserts(tel.nptsx, tel.nptsy, 3) \/ ndebug
       /\ \E coeffs \in (IF PolyfitAsserts(tel.nptsx, tel.nptsy, 3)
                         THEN PolyfitResults(tel, Advance(tel))
                         ELSE UncheckedPolyfitResults) :
            LET start == CycleStart(tel)
                cte == polyeval(coeffs, 0)
                epsi == Neg(Atan(coeffs[2]))
                state_vector == <<0, 0, 0, start.v, cte, epsi>>
            IN  /\ cyc' = [start EXCEPT !.coeffs = coeffs, !.cte = cte, !.epsi = epsi]
                /\ \E out \in SolverOutcomes(state_vector) :
                     /\ solve' = SolveResult(state_vector, coeffs, out[1], out[2])
                     /\ sent' = <<SteerMsg(solve'.actuations)>>
  /\ then' = clock
  /\ actuated' = clock
  /\ clock' = clock + 1
  /\ handled' = "steer"
  /\ UNCHANGED <<argv, pc, ndebug, weights, overrun>>

Next ==
  \/ Main
  \/ Tick
  \/ OnOther
  \/ OnManual
  \/ OnEvent
  \/ OnTelemetryAbort
  \/ OnTelemetryKilled
  \/ OnTelemetry

Spec == Init /\ [][Next]_vars

\* ------------------------------------------- MPC::Solve called on its own
\* The states Solve is called with: every component takes a zero and a
\* non-zero value, the errors also a non-finite one.
SolveStates ==
  {<<x, y, psi, v, cte, epsi>> :
     x \in {0, 3 * One}, y \in {0, 0 - One}, psi \in {0, HalfPi},
     v \in {0, 10 * One}, cte \in {0, 500000, NaN}, epsi \in {0 - (pi \div 4), NaN}}

\* The process after a start-up without command-line values.
InitSolve ==
  /\ argv = <<>>
  /\ pc = "running"
  /\ ndebug \in BOOLEAN
  /\ weights = pass_args(OverrideWeights(<<>>))
  /\ overrun = {}
  /\ clock = 0
  /\ then = 0
  /\ actuated = 0 - 1
  /\ handled = "none"
  /\ sent = <<>>
  /\ cyc = NoCycle
  /\ solve = NoSolve

\* One call mpc.Solve(state, coeffs), up to its return statement.
SolveCall ==
  /\ pc = "running"
  /\ ~solve.called
  /\ \E state \in SolveStates, coeffs \in Fits \cup {NaNFit} :
       \E out \in SolverOutcomes(state) :
         solve' = SolveResult(state, coeffs, out[1], out[2])
  /\ UNCHANGED <<actuated, argv, pc, ndebug, weights, overrun, clock, then, handled, sent, cyc>>

\* The call returns and its locals are gone.
SolveReturn ==
  /\ pc = "running"
  /\ solve.called
  /\ solve' = NoSolve
  /\ UNCHANGED <<actuated, argv, pc, ndebug, weights, overrun, clock, then, handled, sent, cyc>>

NextSolve == SolveCall \/ SolveReturn

SpecSolve == InitSolve /\ [][NextSolve]_vars

\* ================================================================= claims
\* The last call of the handler ran a telemetry cycle.
TelemetryHandled == handled \in {"steer", "abort", "killed"}
SteerSent == {sent[i] : i \in {j \in DOMAIN sent : sent[j].type = "steer"}}

\* C1: when the solver ends with a status other than success, no steer
\* message is sent whose steering and throttle are taken from the vector of
\* that failed solve.  Stated for the cycles whose waypoints polyfit
\* accepts, where no undefined behaviour precedes the solve.
C1_NoSteerFromFailedSolve ==
  (solve.called /\ solve.status # "success"
     /\ PolyfitAsserts(cyc.nptsx, cyc.nptsy, 3)) =>
    \A m \in SteerSent :
      ~(m.throttle = solve.x[a_start]
        /\ m.steering_angle = SteeringAngle(solve.x[delta_start]))

\* The waypoints of the last cycle were too few or of different lengths,
\* its solve did not succeed, or a value given to the solver was not finite.
CycleFailed ==
  /\ TelemetryHandled
  /\ \/ cyc.nptsx < 4 \/ cyc.nptsy < 4 \/ cyc.nptsx # cyc.nptsy
     \/ solve.called /\ solve.status # "success"
     \/ \E i \in 1..4 : ~Finite(cyc.coeffs[i])
     \/ ~Finite(cyc.cte) \/ ~Finite(cyc.epsi)

\* C2: a telemetry cycle that fails never terminates the process: after it
\* the process is still running, ready for the next message.
C2_FailedCycleKeepsRunning == CycleFailed => pc = "running"

\* C3: a telemetry cycle with fewer than 4 waypoints returns no
\* coefficients: MPC::Solve is not called and no steer message is sent.
C3_TooFewWaypointsNoSolve ==
  (TelemetryHandled /\ cyc.nptsx = cyc.nptsy /\ cyc.nptsx < 4) =>
    (~solve.called /\ SteerSent = {})

\* C4: no non-finite value is passed into MPC::Solve, as a component of the
\* initial state, as a constraint bound or as a coefficient.  Stated for
\* the cycles whose waypoints polyfit accepts.
C4_NoNonFiniteIntoSolve ==
  (solve.called /\ handled = "steer" /\ PolyfitAsserts(cyc.nptsx, cyc.nptsy, 3)) =>
    /\ \A i \in 1..6 : Finite(solve.state[i])
    /\ \A i \in 1..4 : Finite(solve.coeffs[i])
    /\ \A j \in DOMAIN solve.constraints_lowerbound :
         Finite(solve.constraints_lowerbound[j]) /\ Finite(solve.constraints_upperbound[j])
    /\ \A i \in DOMAIN solve.vars : Finite(solve.vars[i])


\* The block of the decision vector of a variable kind: N entries for a
\* state kind, N - 1 for an actuation kind.
KindOrder == <<"x", "y", "psi", "v", "cte", "epsi", "delta", "a">>
BlockLen(k) == IF k \in {"delta", "a"} THEN N - 1 ELSE N
Block(k) == Start(k)..(Start(k) + BlockLen(k) - 1)
FgReads == UNION {FgWrites[n].reads : n \in DOMAIN FgWrites}
\* The entries Solve reads from the solution (MPC.cpp 265-270).
ExtractReads ==
  {Rd("delta", 0), Rd("a", 0)}
  \cup {Rd("x", t) : t \in 1..(N - 1)} \cup {Rd("y", t) : t \in 1..(N - 1)}

\* C5: the decision vector has 6N + 2(N-1) entries; the eight offsets cut
\* 0..n_vars-1 into six blocks of N and two of N-1, contiguous and in
\* order; the initial guess, the variable bounds and FG_eval use that
\* partition, and every index FG_eval or Solve uses for a kind lies in the
\* block of that kind.
C5_LayoutPartition ==
  solve.called =>
    /\ DOMAIN solve.vars = 0..(6 * N + 2 * (N - 1) - 1)
    /\ DOMAIN solve.vars_lowerbound = DOMAIN solve.vars
    /\ DOMAIN solve.vars_upperbound = DOMAIN solve.vars
    /\ DOMAIN solve.x = DOMAIN solve.vars
    /\ Start(KindOrder[1]) = 0
    /\ \A n \in 1..7 :
         Start(KindOrder[n + 1]) = Start(KindOrder[n]) + BlockLen(KindOrder[n])
    /\ Start(KindOrder[8]) + BlockLen(KindOrder[8]) = Cardinality(DOMAIN solve.vars)
    /\ \A r \in CostReads \cup FgReads \cup ExtractReads : r.idx \in Block(r.kind)
    /\ \A n \in 1..6 :
         /\ solve.vars[Start(KindOrder[n])] = solve.state[n]
         /\ \A i \in Block(KindOrder[n]) :
              solve.vars_upperbound[i] = StateBound /\ solve.vars_lowerbound[i] = 0 - StateBound
    /\ \A i \in Block("delta") :
         solve.vars_upperbound[i] = SteerBound /\ solve.vars_lowerbound[i] = 0 - SteerBound
    /\ \A i \in Block("a") :
         solve.vars_upperbound[i] = ThrottleBound /\ solve.vars_lowerbound[i] = 0 - ThrottleBound
C5_Witness ==
  solve.called /\ solve.status = "success" /\ Cardinality(DOMAIN solve.x) = 62

\* What fg[1 + j] holds.
FgHolds(j, op) ==
  \E n \in DOMAIN FgWrites : FgWrites[n].slot = 1 + j /\ FgWrites[n].op = op

\* C6 as stated: the constraint vector has 6N entries, entries 0..5 have
\* lower bound = upper bound = the six state values, and every other entry
\* has lower bound = upper bound = 0 and holds a dynamics residual.
C6_FirstSixPinned ==
  solve.called =>
    /\ DOMAIN solve.constraints_lowerbound = 0..(6 * N - 1)
    /\ DOMAIN solve.constraints_upperbound = 0..(6 * N - 1)
    /\ \A j \in 0..(6 * N - 1) :
         IF j < 6
         THEN /\ solve.constraints_lowerbound[j] = solve.state[j + 1]
              /\ solve.constraints_upperbound[j] = solve.state[j + 1]
         ELSE /\ solve.constraints_lowerbound[j] = 0
              /\ solve.constraints_upperbound[j] = 0
              /\ FgHolds(j, "residual")

\* C6 amended: the constraint vector has 6N entries; the six entries that
\* pin the initial state are those at 0, N, 2N, 3N, 4N, 5N (the first entry
\* of the block of each state kind): each has lower bound = upper bound =
\* the matching state value and holds the step-0 variable; every other
\* entry has lower bound = upper bound = 0 and holds a dynamics residual.
C6_PinnedAtBlockStarts ==
  solve.called =>
    /\ DOMAIN solve.constraints_lowerbound = 0..(6 * N - 1)
    /\ DOMAIN solve.constraints_upperbound = 0..(6 * N - 1)
    /\ \A j \in 0..(6 * N - 1) :
         IF j % N = 0
         THEN /\ solve.constraints_lowerbound[j] = solve.state[(j \div N) + 1]
              /\ solve.constraints_upperbound[j] = solve.state[(j \div N) + 1]
              /\ FgHolds(j, "init")
         ELSE /\ solve.constraints_lowerbound[j] = 0
              /\ solve.constraints_upperbound[j] = 0
              /\ FgHolds(j, "residual")
C6_Witness ==
  solve.called /\ Finite(solve.state[4]) /\ solve.state[4] # 0
    /\ solve.constraints_lowerbound[3 * N] = solve.state[4]

\* C7: the six step-0 state entries of the initial guess equal the six
\* values of the input state and every other entry of the guess is 0; the
\* lower and upper bounds of the six initial-state constraints are those
\* values too, and so are the six step-0 state entries of the vector of a
\* successful solve.
C7_InitialStateBlock ==
  solve.called =>
    /\ \A n \in 1..6 :
         /\ solve.vars[Start(KindOrder[n])] = solve.state[n]
         /\ solve.constraints_lowerbound[Start(KindOrder[n])] = solve.state[n]
         /\ solve.constraints_upperbound[Start(KindOrder[n])] = solve.state[n]
         /\ solve.status = "success" => solve.x[Start(KindOrder[n])] = solve.state[n]
    /\ \A i \in DOMAIN solve.vars :
         i \notin {Start(KindOrder[n]) : n \in 1..6} => solve.vars[i] = 0
C7_Witness ==
  solve.called /\ solve.status = "success" /\ solve.state[5] # 0
    /\ solve.x[cte_start] = solve.state[5]

\* C8: after a successful solve the returned d is the entry at delta_start
\* and lies in [-0.436332, 0.436332], the returned a is the entry at a_start
\* and lies in [-1, 1]; those two entries carry the steering and the
\* throttle bound, and no state entry carries either.
C8_ActuationWithinBounds ==
  (solve.called /\ solve.status = "success") =>
    /\ solve.actuations.d = solve.x[delta_start]
    /\ solve.actuations.a = solve.x[a_start]
    /\ 0 - 436332 <= solve.actuations.d /\ solve.actuations.d <= 436332
    /\ 0 - One <= solve.actuations.a /\ solve.actuations.a <= One
    /\ solve.vars_lowerbound[delta_start] = 0 - 436332
    /\ solve.vars_upperbound[delta_start] = 436332
    /\ solve.vars_lowerbound[a_start] = 0 - One
    /\ solve.vars_upperbound[a_start] = One
    /\ \A i \in 0..(6 * N - 1) :
         /\ solve.vars_upperbound[i] \notin {436332, One}
         /\ solve.vars_lowerbound[i] \notin {0 - 436332, 0 - One}
C8_Witness ==
  solve.called /\ solve.status = "success" /\ solve.actuations.d = 436332
    /\ solve.actuations.a = One

\* C9: in every steer message sent after a successful solve,
\* steering_angle lies in [-1, 1] and has the sign opposite to the solved
\* steering, and throttle lies in [-1, 1].
C9_SteerMessageNormalized ==
  (handled = "steer" /\ solve.status = "success") =>
    /\ SteerSent # {}
    /\ \A m \in SteerSent :
         /\ 0 - One <= m.steering_angle /\ m.steering_angle <= One
         /\ 0 - One <= m.throttle /\ m.throttle <= One
         /\ solve.actuations.d > 0 => m.steering_angle < 0
         /\ solve.actuations.d < 0 => m.steering_angle > 0
C9_Witness ==
  handled = "steer" /\ solve.status = "success" /\ Len(sent) = 1
    /\ sent[1].steering_angle = 0 - One /\ sent[1].throttle = One

\* C10: after start-up the cost weights are 7 values, the i-th being the
\* i-th command-line value where there is one and its default otherwise,
\* and nothing outside those 7 positions has been written.
C10_WeightsAfterStartup ==
  pc = "running" =>
    /\ Len(weights) = 7
    /\ \A i \in 1..7 :
         weights[i] = IF i <= Len(argv) THEN atof(argv[i])
                      ELSE <<2000, 10000, 5000, 3000000, 100000, 500000, 100000>>[i]
    /\ overrun = {}

\* C11: after start-up the controller's weights are the 7 values start-up
\* gave them, whatever messages were handled since, and the evaluator of
\* every solve works on a copy equal to them.
C11_WeightsReadOnly ==
  pc = "running" =>
    /\ Len(weights) = 7
    /\ weights = pass_args(OverrideWeights(argv))
    /\ solve.called => solve.weights = weights
C11_Witness ==
  /\ handled = "steer" /\ solve.called /\ actuated = 1 /\ Len(argv) = 3
  /\ solve.weights = <<1500, 0 - 20000, 300000, 3000000, 100000, 500000, 100000>>

\* A step of the handler that runs a telemetry cycle.
TelemetryStep ==
  /\ pc = "running"
  /\ handled' \in {"steer", "abort", "killed"}
  /\ cyc' # NoCycle
  /\ then' = clock
  /\ clock' = clock + 1 \/ pc' = "terminated"

\* C12: in every telemetry cycle, the first one included, an actuation
\* was computed before and the time step of the latency advance is the
\* time elapsed since then; the advance uses the steering and throttle of
\* the telemetry record; `then` is set to the time of the cycle, and no
\* other step of the running process changes it.  The first part is stated
\* for the cycles that run to their steer message on waypoints polyfit
\* accepts.
C12_LatencySincePreviousActuation ==
  [][/\ (TelemetryStep /\ handled' = "steer"
         /\ PolyfitAsserts(cyc'.nptsx, cyc'.nptsy, 3)) =>
          /\ actuated >= 0
          /\ cyc'.latency = (clock - actuated) * 100
          /\ \E pr \in PrevActuations, po \in Poses :
               /\ cyc'.d = pr.d /\ cyc'.a = pr.a
               /\ cyc'.v = globalKinematic(po.px, po.py, po.psi, po.v,
                                           pr.d, pr.a, cyc'.latency).v
     /\ (pc = "running" /\ ~TelemetryStep) => then' = then]_vars

\* C13: FG_eval assigns each constraint slot fg[1..6N] exactly once and no
\* other slot but fg[0]: slot 1 + k_start holds the step-0 variable of
\* kind k, and for t in 1..N-1 slot 1 + k_start + t holds the variable of
\* kind k at step t minus a prediction that reads only entries of step
\* t-1, the actuation entries among them at an index in 0..N-2, and, for
\* cte and epsi, the x of step t-1 at which the polynomial is evaluated.
C13_ConstraintSlotsWrittenOnce ==
  solve.called =>
    /\ Len(FgWrites) = 6 * N
    /\ \A j \in DOMAIN solve.constraints_lowerbound :
         Cardinality({n \in DOMAIN FgWrites : FgWrites[n].slot = 1 + j}) = 1
    /\ \A n \in DOMAIN FgWrites :
         LET w == FgWrites[n]
         IN  /\ w.slot \in 1..(6 * N)
             /\ w.slot - 1 \in DOMAIN solve.constraints_lowerbound
             /\ w.slot = 1 + Start(w.kind) + w.t
             /\ w.t \in 0..(N - 1)
             /\ w.t = 0 => (w.op = "init" /\ w.reads = {Rd(w.kind, 0)})
             /\ w.t >= 1 =>
                  /\ w.op = "residual"
                  /\ Rd(w.kind, w.t) \in w.reads
                  /\ \A r \in w.reads \ {Rd(w.kind, w.t)} :
                       /\ r.idx = Start(r.kind) + w.t - 1
                       /\ r.kind \in {"delta", "a"} =>
                            r.idx - Start(r.kind) \in 0..(N - 2)
                  /\ w.kind \in {"cte", "epsi"} => Rd("x", w.t - 1) \in w.reads
    /\ \A k \in {StateKinds[n] : n \in 1..6}, t \in 1..(N - 1) :
         \E n \in DOMAIN FgWrites : FgWrites[n].kind = k /\ FgWrites[n].t = t
C13_Witness ==
  /\ solve.called
  /\ DOMAIN solve.constraints_lowerbound = 0..(6 * N - 1)
  /\ \E n \in DOMAIN FgWrites :
       /\ FgWrites[n].slot = 6 * N /\ FgWrites[n].op = "residual"
       /\ FgWrites[n].kind = "epsi" /\ FgWrites[n].t = N - 1
       /\ Rd("delta", N - 2) \in FgWrites[n].reads

\* C14: the struct Solve returns has d = the solution's entry at
\* delta_start, a = its entry at a_start, and x_vals and y_vals of N-1
\* entries each, the i-th (from 0) being the x, respectively y, of step
\* i+1; the step-0 position is in neither.
C14_ExtractedActuation ==
  solve.called =>
    /\ solve.actuations.d = solve.x[delta_start]
    /\ solve.actuations.a = solve.x[a_start]
    /\ Len(solve.actuations.x_vals) = N - 1
    /\ Len(solve.actuations.y_vals) = N - 1
    /\ \A i \in 0..(N - 2) :
         /\ solve.actuations.x_vals[i + 1] = solve.x[x_start + i + 1]
         /\ solve.actuations.y_vals[i + 1] = solve.x[y_start + i + 1]
C14_Witness ==
  /\ solve.called /\ solve.status = "success"
  /\ solve.actuations.x_vals[1] # solve.x[x_start]
  /\ solve.actuations.x_vals[N - 1] = solve.x[x_start + N - 1]
  /\ solve.actuations.x_vals # solve.actuations.y_vals
  /\ solve.actuations.d = 0 - 436332

\* C15: a handled telemetry message has produced exactly one steer
\* message, built after its solve returned; a "42" message without data
\* has produced exactly one manual message and no solve; every other
\* message has produced no output and no solve.
C15_OneOutputPerMessage ==
  /\ TelemetryHandled =>
       /\ solve.called
       /\ sent = <<SteerMsg(solve.actuations)>>
  /\ handled = "manual" => (sent = <<ManualMsg>> /\ ~solve.called)
  /\ handled \in {"ignored", "event"} => (sent = <<>> /\ ~solve.called)
====
